---- MODULE Spec2Model ----
(***************************************************************************)
(* State-machine model of ColorEnv (src/colorenv/colorenv.py): an agent    *)
(* colours an n x n board one cell per step; the step that fills the board *)
(* runs the legality check and fixes the final reward.                     *)
(*                                                                         *)
(* Python's self.done is False after __init__ and the integer 0 after      *)
(* reset(); both are falsy and compare equal, so done is a BOOLEAN here.   *)
(* self.state[:,:,0] is board, self.state[:,:,1] is marker.                *)
(***************************************************************************)
EXTENDS Integers, Sequences, FiniteSets, TLC

VARIABLES
    n,                  \* config['gym']['n']
    num_colors,         \* config['gym']['num_colors']
    maximize_red,       \* config['gym']['maximize_red']
    ordered_placement,  \* config['gym']['ordered_placement']
    disable_checking,   \* config['gym']['disable_checking']
    free_coords,        \* list (ordered placement) or set of coordinates
    board,              \* state[:,:,0]: 0 = empty, else the colour
    marker,             \* state[:,:,1]: the placement array
    counter,            \* number of pieces placed
    done,               \* terminal flag
    current_loc,        \* the cell the next piece goes to
    lastOp,             \* the call that returned last: "init", "step", "reset"
    lastAction,         \* raw action of the last step call (0 for other calls)
    ret_reward,         \* reward returned by the last step call
    ret_done,           \* terminal flag returned by the last step call
    log,                \* what the last call printed
    raised,             \* TRUE once an assertion of the code has failed
    nValid,             \* in-range step calls since construction or reset
    actions,            \* the in-range raw actions of the episode, the first n*n
    timesTarget,        \* per cell: how often the episode made it the target
    rng,                \* state of the process-wide generator of module random
    other,              \* a second ColorEnv instance of the same process
    alone               \* this instance's calls replayed without the second
                        \* instance: its generator and its instance

config == <<n, num_colors, maximize_red, ordered_placement, disable_checking>>
env    == <<free_coords, board, marker, counter, done, current_loc>>
result == <<lastOp, lastAction, ret_reward, ret_done, log, raised, nValid,
            actions, timesTarget>>
shared == <<rng, other, alone>>
vars   == <<config, env, result, shared>>

----------------------------------------------------------------------------
(* Bounds of the exploration *)

MaxN == 3
MaxColors == 3
\* a configuration is explored when its boards number at most MaxBoards: the
\* full boards under ordered placement (a prefix of the row-major order is
\* coloured), the partial boards with their target under random placement
MaxBoards == 20000

\* b^e, no longer multiplied once it exceeds MaxBoards
RECURSIVE Pow(_, _)
Pow(b, e) ==
    IF e = 0 THEN 1
    ELSE LET r == Pow(b, e - 1) IN IF r > MaxBoards THEN r ELSE b * r

BoardSpace(nn, c, ordered) ==
    IF ordered THEN Pow(c, nn * nn) ELSE Pow(c + 1, nn * nn) * nn * nn

----------------------------------------------------------------------------
(* Helpers *)

Coords(nn) == (0 .. nn - 1) \X (0 .. nn - 1)

zeros(nn) == [c \in Coords(nn) |-> 0]

\* the n x n array that is 1 at c and 0 elsewhere
OneHot(c) == [d \in Coords(n) |-> IF d = c THEN 1 ELSE 0]

Min(x, y) == IF x <= y THEN x ELSE y

_num_nonzero(arr) == Cardinality({c \in DOMAIN arr : arr[c] # 0})

\* the raw actions tried: one below the range, the range, one above it
RawActions == -1 .. num_colors

----------------------------------------------------------------------------
(* Free-location pool *)

RowMajor(nn) == [k \in 1 .. nn * nn |-> <<(k - 1) \div nn, (k - 1) % nn>>]

ColMajor(nn) == [k \in 1 .. nn * nn |-> <<(k - 1) % nn, (k - 1) \div nn>>]

\* variant: the loops are nested the other way round
_new_free_coords_colmajor(nn, ordered) ==
    IF ordered THEN ColMajor(nn) ELSE Coords(nn)

_new_free_coords(nn, ordered) ==
    IF ordered THEN RowMajor(nn) ELSE Coords(nn)

PoolSize(fc) == IF ordered_placement THEN Len(fc) ELSE Cardinality(fc)

PoolSet(fc) == IF ordered_placement THEN {fc[k] : k \in 1 .. Len(fc)} ELSE fc

\* variant: the random draw is made among all cells
Draws_any_cell(fc, ordered) ==
    IF ordered THEN {fc[1]} ELSE Coords(n)

\* the coordinates a draw can return: free_coords.pop(0), or
\* random.choice(tuple(free_coords))
Draws(fc, ordered) ==
    IF ordered THEN {fc[1]} ELSE fc

\* variant: free_coords.remove is forgotten
Remove_forgotten(fc, loc, ordered) ==
    IF ordered THEN Tail(fc) ELSE fc

\* the pool after loc was drawn
Remove(fc, loc, ordered) ==
    IF ordered THEN Tail(fc) ELSE fc \ {loc}

----------------------------------------------------------------------------
(* Legality checker *)

\* variant: disable_checking is ignored
_check_legal_board_always(b) ==
    IF \E i \in 0 .. n - 2, j \in 0 .. n - 2 :
          b[<<i, j>>] = b[<<i + 1, j>>] \/ b[<<i, j>>] = b[<<i, j + 1>>]
    THEN FALSE
    ELSE IF \/ b[<<n - 1, n - 1>>] = b[<<n - 2, n - 1>>]
            \/ b[<<n - 1, n - 1>>] = b[<<n - 1, n - 2>>]
         THEN FALSE
    ELSE TRUE

\* variant: only the right-hand neighbours are compared
_check_legal_board_rows_only(b) ==
    IF disable_checking THEN TRUE
    ELSE IF \E i \in 0 .. n - 2, j \in 0 .. n - 2 :
               b[<<i, j>>] = b[<<i, j + 1>>]
         THEN FALSE
    ELSE IF b[<<n - 1, n - 1>>] = b[<<n - 1, n - 2>>]
         THEN FALSE
    ELSE TRUE

_check_legal_board(b) ==
    IF disable_checking THEN TRUE
    ELSE IF \E i \in 0 .. n - 2, j \in 0 .. n - 2 :
               b[<<i, j>>] = b[<<i + 1, j>>] \/ b[<<i, j>>] = b[<<i, j + 1>>]
         THEN FALSE
    ELSE IF \/ b[<<n - 1, n - 1>>] = b[<<n - 2, n - 1>>]
            \/ b[<<n - 1, n - 1>>] = b[<<n - 1, n - 2>>]
         THEN FALSE
    ELSE TRUE

----------------------------------------------------------------------------
(* Observation *)

\* state.flatten() of the (n, n, 2) array: cell by cell in row-major order,
\* the board entry before the marker entry
flatten(b, m) ==
    [k \in 1 .. 2 * n * n |->
        LET cell == <<((k - 1) \div 2) \div n, ((k - 1) \div 2) % n>>
        IN  IF (k - 1) % 2 = 0 THEN b[cell] ELSE m[cell]]

_get_state_agent_view(flat) ==
    IF flat THEN flatten(board, marker) ELSE <<board, marker>>

----------------------------------------------------------------------------
(* The generator of module random, shared by every instance of a process *)

MaxSharedN == 2
MaxSharedColors == 1
MaxSeed == 1
\* the generator is a deterministic walk through RngPeriod states
RngPeriod == 8

Seeds == 0 .. MaxSeed

NoSeed == -1

NoInstance == [built |-> FALSE]

\* random.seed(seed)
seed_rng(sd) == sd % RngPeriod

\* the generator state after one draw
advance(r) == (5 * r + 3) % RngPeriod

Rank(c) == c[1] * n + c[2]

\* random.choice(tuple(fc)) in generator state r: the draw is a function of
\* the generator state and of the pool
choice(r, fc) ==
    CHOOSE c \in fc :
        Cardinality({d \in fc : Rank(d) < Rank(c)}) = r % Cardinality(fc)

\* the specification Spec explores one instance with every outcome of every
\* draw; the generator and the second instance play no part in it
Unshared ==
    /\ rng = 0
    /\ other = NoInstance
    /\ alone = NoInstance

----------------------------------------------------------------------------
(* Construction *)

Init ==
    /\ n \in 2 .. MaxN
    /\ num_colors \in 1 .. MaxColors
    /\ maximize_red \in BOOLEAN
    /\ ordered_placement \in BOOLEAN
    /\ disable_checking \in BOOLEAN
    /\ BoardSpace(n, num_colors, ordered_placement) <= MaxBoards
    /\ \E loc \in Draws(_new_free_coords(n, ordered_placement), ordered_placement) :
          /\ current_loc = loc
          /\ free_coords = Remove(_new_free_coords(n, ordered_placement), loc,
                                  ordered_placement)
          /\ marker = [zeros(n) EXCEPT ![loc] = 1]
    /\ board = zeros(n)
    /\ counter = 0
    /\ done = FALSE
    /\ lastOp = "init"
    /\ lastAction = 0
    /\ ret_reward = 0
    /\ ret_done = FALSE
    /\ log = ""
    /\ raised = FALSE
    /\ nValid = 0
    /\ actions = <<>>
    /\ timesTarget = OneHot(current_loc)
    /\ Unshared

----------------------------------------------------------------------------
(* step *)

\* variant: only the upper end of the range is checked
IllegalAction_upper_only(action) == action > num_colors

\* variant: only the lower end of the range is checked
IllegalAction_lower_only(action) == action <= 0

IllegalAction(action) == action > num_colors \/ action <= 0

\* variant: every colour is rewarded under maximize_red
PlacementReward_any_colour(action) == IF maximize_red THEN 1 ELSE 0

PlacementReward(action) == IF maximize_red /\ action = 1 THEN 1 ELSE 0

\* variant: the game is declared over one piece early
BoardFull_one_early(c) == c >= n * n - 1

\* variant: the game is declared over one piece late
BoardFull_one_late(c) == c = n * n + 1

BoardFull(c) == c = n * n

\* variant: the maximize_red penalty is forgotten
TerminalReward_no_penalty(legal) ==
    IF legal THEN 1 ELSE 0

TerminalReward(legal) ==
    IF legal THEN 1 ELSE IF maximize_red THEN -100 ELSE 0

\* lines 183-185: the illegal-action return
Reject ==
    /\ log' = "Illegal action"
    /\ ret_reward' = -1
    /\ ret_done' = done
    /\ UNCHANGED <<env, raised, timesTarget>>

\* variant: the counter is incremented before the finished game is noticed
AlreadyOver_counts ==
    /\ log' = "Game is already over"
    /\ ret_reward' = 0
    /\ ret_done' = done
    /\ counter' = counter + 1
    /\ UNCHANGED <<free_coords, board, marker, done, current_loc, raised,
                   timesTarget>>

\* lines 187-189: the return of a step on a finished game
AlreadyOver ==
    /\ log' = "Game is already over"
    /\ ret_reward' = 0
    /\ ret_done' = done
    /\ UNCHANGED <<env, raised, timesTarget>>

\* lines 124-137, called with the piece already on the board; a failed
\* assertion leaves the pool, the marker and the target as they were
_get_next_location ==
    IF PoolSize(free_coords) = 0
    THEN /\ raised' = TRUE
         /\ UNCHANGED <<free_coords, marker, current_loc, timesTarget>>
    ELSE /\ \E new_loc \in Draws(free_coords, ordered_placement) :
              /\ free_coords' = Remove(free_coords, new_loc, ordered_placement)
              /\ marker' = [[marker EXCEPT ![current_loc] = 0]
                                EXCEPT ![new_loc] = 1]
              /\ current_loc' = new_loc
              /\ timesTarget' = [timesTarget EXCEPT
                                    ![new_loc] = Min(@ + 1, 2)]
         /\ UNCHANGED raised

\* variant: the marker is not cleared when the board is full
Place_keeps_marker(action) ==
    /\ log' = ""
    /\ counter' = counter + 1
    /\ board' = [board EXCEPT ![current_loc] = action]
    /\ IF BoardFull(counter + 1)
       THEN /\ done' = TRUE
            /\ ret_reward' = TerminalReward(_check_legal_board(board'))
            /\ ret_done' = TRUE
            /\ UNCHANGED <<free_coords, marker, current_loc, raised, timesTarget>>
       ELSE /\ _get_next_location
            /\ ret_reward' = PlacementReward(action)
            /\ ret_done' = done
            /\ UNCHANGED done

\* lines 191-209
Place(action) ==
    /\ log' = ""
    /\ counter' = counter + 1
    /\ board' = [board EXCEPT ![current_loc] = action]
    /\ IF BoardFull(counter + 1)
       THEN /\ done' = TRUE
            /\ marker' = [marker EXCEPT ![current_loc] = 0]
            /\ ret_reward' = TerminalReward(_check_legal_board(board'))
            /\ ret_done' = TRUE
            /\ UNCHANGED <<free_coords, current_loc, raised, timesTarget>>
       ELSE /\ _get_next_location
            /\ ret_reward' = PlacementReward(action)
            /\ ret_done' = done
            /\ UNCHANGED done

\* variant: the finished game is not noticed
step_no_done_check(a) ==
    /\ ~raised
    /\ lastOp' = "step"
    /\ lastAction' = a
    /\ nValid' = IF a \in 0 .. num_colors - 1 /\ nValid <= n * n
                 THEN nValid + 1 ELSE nValid
    /\ actions' = IF a \in 0 .. num_colors - 1 /\ Len(actions) < n * n
                  THEN Append(actions, a) ELSE actions
    /\ IF IllegalAction(a + 1) THEN Reject
       ELSE Place(a + 1)
    /\ UNCHANGED config

step(a) ==
    /\ ~raised
    /\ lastOp' = "step"
    /\ lastAction' = a
    /\ nValid' = IF a \in 0 .. num_colors - 1 /\ nValid <= n * n
                 THEN nValid + 1 ELSE nValid
    /\ actions' = IF a \in 0 .. num_colors - 1 /\ Len(actions) < n * n
                  THEN Append(actions, a) ELSE actions
    /\ IF IllegalAction(a + 1) THEN Reject
       ELSE IF done THEN AlreadyOver
       ELSE Place(a + 1)
    /\ UNCHANGED config

----------------------------------------------------------------------------
(* reset *)

reset ==
    /\ ~raised
    /\ \E loc \in Draws(_new_free_coords(n, ordered_placement), ordered_placement) :
          /\ current_loc' = loc
          /\ free_coords' = Remove(_new_free_coords(n, ordered_placement), loc,
                                   ordered_placement)
    /\ board' = zeros(n)
    /\ marker' = zeros(n)
    /\ counter' = 0
    /\ done' = FALSE
    /\ lastOp' = "reset"
    /\ lastAction' = 0
    /\ ret_reward' = 0
    /\ ret_done' = FALSE
    /\ log' = ""
    /\ nValid' = 0
    /\ actions' = <<>>
    /\ timesTarget' = OneHot(current_loc')
    /\ UNCHANGED <<config, raised>>

Next ==
    \/ \E a \in RawActions : step(a) /\ UNCHANGED shared
    \/ reset /\ UNCHANGED shared

Spec == Init /\ [][Next]_vars

----------------------------------------------------------------------------
(* Two instances in one process, random placement *)

\* the fields of an instance that its draws read and write, after __init__
\* or reset drew the first location in generator state r
Fresh(r) ==
    [built |-> TRUE,
     free_coords |-> Coords(n) \ {choice(r, Coords(n))},
     current_loc |-> choice(r, Coords(n)),
     counter |-> 0,
     done |-> FALSE]

\* the same fields after a step with an in-range action, the next location
\* drawn in generator state r
Placed(inst, r) ==
    IF inst.done THEN inst
    ELSE IF BoardFull(inst.counter + 1)
         THEN [inst EXCEPT !.counter = @ + 1, !.done = TRUE]
    ELSE [inst EXCEPT !.counter = @ + 1,
                      !.current_loc = choice(r, inst.free_coords),
                      !.free_coords = @ \ {choice(r, inst.free_coords)}]

\* whether that step draws
Draws_on_step(inst) == ~inst.done /\ ~BoardFull(inst.counter + 1)

InitShared ==
    /\ n \in 2 .. MaxSharedN
    /\ num_colors \in 1 .. MaxSharedColors
    \* the reward scheme and the checker read no draw and make none
    /\ maximize_red = FALSE
    /\ ordered_placement = FALSE
    /\ disable_checking = FALSE
    /\ \E sd \in Seeds :
          /\ current_loc = choice(seed_rng(sd), Coords(n))
          /\ rng = advance(seed_rng(sd))
          /\ alone = [rng |-> advance(seed_rng(sd)),
                      inst |-> Fresh(seed_rng(sd))]
    /\ free_coords = Coords(n) \ {current_loc}
    /\ marker = OneHot(current_loc)
    /\ board = zeros(n)
    /\ counter = 0
    /\ done = FALSE
    /\ lastOp = "init"
    /\ lastAction = 0
    /\ ret_reward = 0
    /\ ret_done = FALSE
    /\ log = ""
    /\ raised = FALSE
    /\ nValid = 0
    /\ actions = <<>>
    /\ timesTarget = OneHot(current_loc)
    /\ other = NoInstance

\* a call of this instance's step: the draw of the handler, if it makes
\* one, is the generator's, and the replay makes the same call
stepShared(a) ==
    /\ step(a)
    /\ IF free_coords' # free_coords
       THEN /\ current_loc' = choice(rng, free_coords)
            /\ rng' = advance(rng)
       ELSE rng' = rng
    /\ alone' = IF IllegalAction(a + 1) THEN alone
                ELSE [rng |-> IF Draws_on_step(alone.inst)
                              THEN advance(alone.rng) ELSE alone.rng,
                      inst |-> Placed(alone.inst, alone.rng)]
    /\ UNCHANGED other

\* a call of this instance's reset
resetShared ==
    /\ reset
    /\ current_loc' = choice(rng, Coords(n))
    /\ rng' = advance(rng)
    /\ alone' = [rng |-> advance(alone.rng), inst |-> Fresh(alone.rng)]
    /\ UNCHANGED other

\* the second instance is constructed, with a seed or without one
constructOther(sd) ==
    /\ ~other.built
    /\ other' = Fresh(IF sd = NoSeed THEN rng ELSE seed_rng(sd))
    /\ rng' = advance(IF sd = NoSeed THEN rng ELSE seed_rng(sd))
    /\ UNCHANGED <<config, env, result, alone>>

\* a step of the second instance with an in-range action
stepOther ==
    /\ other.built
    /\ other' = Placed(other, rng)
    /\ rng' = IF Draws_on_step(other) THEN advance(rng) ELSE rng
    /\ UNCHANGED <<config, env, result, alone>>

\* a reset of the second instance
resetOther ==
    /\ other.built
    /\ other' = Fresh(rng)
    /\ rng' = advance(rng)
    /\ UNCHANGED <<config, env, result, alone>>

NextShared ==
    \/ \E a \in RawActions : stepShared(a)
    \/ resetShared
    \/ \E sd \in Seeds \cup {NoSeed} : constructOther(sd)
    \/ stepOther
    \/ resetOther

SpecShared == InitShared /\ [][NextShared]_vars

----------------------------------------------------------------------------
(* Vocabulary of the properties *)

InRange(a) == a \in 0 .. num_colors - 1

\* the last call was the n*n-th step call with an in-range action since
\* construction or reset
FinalPlacement == lastOp = "step" /\ InRange(lastAction) /\ nValid = n * n

Adjacent(c1, c2) ==
    \/ c1[1] = c2[1] /\ (c1[2] - c2[2] = 1 \/ c2[2] - c1[2] = 1)
    \/ c1[2] = c2[2] /\ (c1[1] - c2[1] = 1 \/ c2[1] - c1[1] = 1)

HasEqualNeighbours(b) ==
    \E c1, c2 \in Coords(n) : Adjacent(c1, c2) /\ b[c1] = b[c2]

\* the k-th coordinate (from 0) of the row-major order
RowMajorCoord(k) == <<k \div n, k % n>>

----------------------------------------------------------------------------
(* Properties *)

\* C1: counting the step calls with an in-range action since construction or
\* reset, the terminal flag a step returns is false at each of the first
\* n*n - 1 of them and true at the n*n-th.
C1_TerminalExactlyAtLastStep ==
    (lastOp = "step" /\ InRange(lastAction) /\ nValid <= n * n)
        => (ret_done <=> nValid = n * n)

C1_Witness ==
    /\ FinalPlacement
    /\ ret_done
    /\ n = MaxN

\* C2: with checking enabled, the legality checker rejects a full board
\* exactly when two row-adjacent or column-adjacent cells have the same colour.
C2_CheckerFindsEveryEqualPair ==
    (done /\ ~disable_checking)
        => (_check_legal_board(board) <=> ~HasEqualNeighbours(board))

\* C3 as stated: a step on a finished game, whatever its action, changes
\* nothing and returns reward 0 with terminal = true.
C3_Original ==
    [][(done /\ lastOp' = "step")
        => (UNCHANGED env /\ ret_reward' = 0 /\ ret_done')]_vars

\* C3: a step on a finished game changes nothing and returns terminal = true;
\* its reward is 0 for an in-range action and -1 for an out-of-range action.
C3_StepAfterTerminal ==
    [][(done /\ lastOp' = "step")
        => /\ UNCHANGED env
           /\ ret_done'
           /\ ret_reward' = IF InRange(lastAction') THEN 0 ELSE -1]_vars

C3_Witness ==
    /\ done
    /\ lastOp = "step"
    /\ InRange(lastAction)
    /\ nValid > n * n
    /\ ret_reward = 0
    /\ ret_done

\* C4: a step with an out-of-range action changes nothing, returns reward -1
\* and the unchanged terminal flag, and raises no error.
C4_IllegalActionRejected ==
    [][(lastOp' = "step" /\ ~InRange(lastAction'))
        => /\ UNCHANGED env
           /\ ret_reward' = -1
           /\ ret_done' = done
           /\ ~raised']_vars

C4_Witness ==
    /\ lastOp = "step"
    /\ lastAction = -1
    /\ ret_reward = -1
    /\ ~ret_done
    /\ counter > 0

\* C5: in every non-terminal state exactly one cell of the placement marker
\* is 1, and it is the current target.
C5_OneMarkerAtTarget ==
    ~done => marker = OneHot(current_loc)

\* C6: under ordered placement the target after k in-range steps of an
\* episode is the k-th coordinate of the row-major order (the last one once
\* the board is full), however many out-of-range steps came in between.
C6_RowMajorTargets ==
    ordered_placement
        => current_loc = RowMajorCoord(Min(nValid, n * n - 1))

C6_Witness ==
    /\ ordered_placement
    /\ lastOp = "step"
    /\ ~InRange(lastAction)
    /\ nValid = n + 1
    /\ current_loc = <<1, 1>>

\* C7: the step that places the n*n-th piece returns 1 when the checker
\* judges the board legal, else -100 under maximize_red and 0 without it.
C7_FinalReward ==
    FinalPlacement
        => ret_reward = IF _check_legal_board(board) THEN 1
                        ELSE IF maximize_red THEN -100 ELSE 0

C7_Witness ==
    /\ FinalPlacement
    /\ maximize_red
    /\ ~disable_checking
    /\ ~_check_legal_board(board)
    /\ ret_reward = -100

\* C8: with disable_checking the checker accepts every full board, so the
\* step that places the n*n-th piece returns reward 1.
C8_CheckingDisabled ==
    (disable_checking /\ done)
        => /\ _check_legal_board(board)
           /\ FinalPlacement => ret_reward = 1

C8_Witness ==
    /\ disable_checking
    /\ FinalPlacement
    /\ HasEqualNeighbours(board)
    /\ maximize_red
    /\ ret_reward = 1

\* C9: the counter equals the number of non-empty board cells and lies in
\* 0 .. n*n.
C9_CounterCountsPieces ==
    /\ counter = _num_nonzero(board)
    /\ 0 <= counter
    /\ counter <= n * n

C9_Witness ==
    /\ counter = n * n
    /\ _num_nonzero(board) = n * n
    /\ log = "Game is already over"

\* C10: reset returns the environment to the state construction leaves: empty
\* board, counter 0, not terminal, the drawn target marked in the placement
\* array, the other n*n - 1 coordinates in the pool; under ordered placement
\* the observation equals the one after construction.
C10_ResetEqualsConstruction ==
    lastOp = "reset"
        => /\ board = zeros(n)
           /\ counter = 0
           /\ ~done
           /\ marker = OneHot(current_loc)
           /\ PoolSet(free_coords) = Coords(n) \ {current_loc}
           /\ PoolSize(free_coords) = n * n - 1
           /\ ordered_placement =>
                 \A flat \in BOOLEAN :
                    _get_state_agent_view(flat) =
                        IF flat THEN flatten(zeros(n), OneHot(<<0, 0>>))
                        ELSE <<zeros(n), OneHot(<<0, 0>>)>>

\* the 2 x 2 board [[a, b], [c, d]]
Board2(a, b, c, d) ==
    (<<0, 0>> :> a) @@ (<<0, 1>> :> b) @@ (<<1, 0>> :> c) @@ (<<1, 1>> :> d)

Scenario ==
    /\ n = 2
    /\ num_colors = 2
    /\ maximize_red
    /\ ordered_placement
    /\ ~disable_checking

\* C11: with n = 2, two colours, maximize_red, ordered placement and checking
\* enabled, the actions [0,1,0,1] of a fresh episode end with board
\* [[1,2],[1,2]], terminal and reward -100; [0,1,1,0] end with board
\* [[1,2],[2,1]], terminal and reward 1.
C11_Scenarios ==
    (Scenario /\ FinalPlacement)
        => /\ actions = <<0, 1, 0, 1>>
                => /\ board = Board2(1, 2, 1, 2)
                   /\ ret_done
                   /\ ret_reward = -100
           /\ actions = <<0, 1, 1, 0>>
                => /\ board = Board2(1, 2, 2, 1)
                   /\ ret_done
                   /\ ret_reward = 1

C11_Witness ==
    /\ Scenario
    /\ FinalPlacement
    /\ actions = <<0, 1, 0, 1>>
    /\ ret_reward = -100

C11_WitnessLegal ==
    /\ Scenario
    /\ FinalPlacement
    /\ actions = <<0, 1, 1, 0>>
    /\ ret_reward = 1

\* C13: no assertion fails, and whenever an in-range step of an unfinished
\* game would leave the board unfinished (counter + 1 < n*n), the pool it
\* draws from is not empty.
C13_DrawNeverOnEmptyPool ==
    /\ ~raised
    /\ (~done /\ counter + 1 < n * n) => PoolSize(free_coords) > 0

C13_Witness ==
    /\ lastOp = "step"
    /\ InRange(lastAction)
    /\ ~done
    /\ counter = n * n - 1
    /\ PoolSize(free_coords) = 0
    /\ ~raised

\* C14: the terminal flag is true exactly when counter = n*n, and then the
\* pool is empty, every board cell is coloured and every marker cell is 0.
C14_TerminalState ==
    /\ done <=> counter = n * n
    /\ done => /\ PoolSize(free_coords) = 0
               /\ \A c \in Coords(n) : board[c] # 0
               /\ \A c \in Coords(n) : marker[c] = 0

C14_Witness ==
    /\ done
    /\ FinalPlacement
    /\ counter = n * n
    /\ ~ordered_placement

\* an in-range step of an unfinished game that leaves the board unfinished
NonFinalPlacement ==
    /\ lastOp' = "step"
    /\ InRange(lastAction')
    /\ ~done
    /\ counter + 1 < n * n

\* C15: in every non-terminal state the pool has n*n - counter - 1
\* coordinates, none of them coloured, the target is not in the pool and is
\* not coloured; every in-range step that leaves the board unfinished takes
\* exactly one coordinate out of the pool.
C15_PoolBookkeeping ==
    /\ [](~done =>
            /\ PoolSize(free_coords) = n * n - counter - 1
            /\ Cardinality(PoolSet(free_coords)) = PoolSize(free_coords)
            /\ current_loc \notin PoolSet(free_coords)
            /\ board[current_loc] = 0
            /\ \A c \in PoolSet(free_coords) : board[c] = 0)
    /\ [][NonFinalPlacement =>
            /\ PoolSize(free_coords') = PoolSize(free_coords) - 1
            /\ PoolSet(free_coords') = PoolSet(free_coords) \ {current_loc'}
            /\ current_loc' \in PoolSet(free_coords)]_vars

C15_Witness ==
    /\ ~ordered_placement
    /\ ~done
    /\ lastOp = "step"
    /\ InRange(lastAction)
    /\ counter = 2
    /\ PoolSize(free_coords) = n * n - 3
    /\ n = MaxN

\* C16: between two resets, an in-range step of an unfinished game colours
\* the target, which was empty, with a colour in 1 .. num_colors and changes
\* no other board cell; every other step changes no board cell; so a
\* coloured cell keeps its colour and the number of coloured cells never
\* decreases.
C16_BoardFrame ==
    [][lastOp' = "step" =>
        /\ IF InRange(lastAction') /\ ~done
           THEN /\ board[current_loc] = 0
                /\ board'[current_loc] \in 1 .. num_colors
                /\ board'[current_loc] = lastAction' + 1
                /\ \A c \in Coords(n) \ {current_loc} : board'[c] = board[c]
           ELSE board' = board
        /\ \A c \in Coords(n) : board[c] # 0 => board'[c] = board[c]
        /\ _num_nonzero(board') >= _num_nonzero(board)]_vars

C16_Witness ==
    /\ lastOp = "step"
    /\ InRange(lastAction)
    /\ ~ordered_placement
    /\ counter = 3
    /\ _num_nonzero(board) = 3
    /\ log = ""

\* C17: an in-range step that leaves the board unfinished returns reward 1
\* when maximize_red is set and the raw action is 0 (colour 1), and reward 0
\* otherwise.
C17_PlacementReward ==
    (lastOp = "step" /\ InRange(lastAction) /\ nValid < n * n)
        => ret_reward = IF maximize_red /\ lastAction = 0 THEN 1 ELSE 0

C17_Witness ==
    /\ lastOp = "step"
    /\ lastAction = 0
    /\ maximize_red
    /\ nValid = 2
    /\ nValid < n * n
    /\ ret_reward = 1

\* C18: under random placement no cell is made the target twice in an
\* episode, the targets so far number one more than the pieces placed (n*n
\* once the board is full), and when the episode is terminal every cell has
\* been the target exactly once.
C18_TargetsArePermutation ==
    ~ordered_placement
        => /\ \A c \in Coords(n) : timesTarget[c] <= 1
           /\ _num_nonzero(timesTarget) = Min(counter + 1, n * n)
           /\ timesTarget[current_loc] = 1
           /\ done => \A c \in Coords(n) : timesTarget[c] = 1

C18_Witness ==
    /\ ~ordered_placement
    /\ done
    /\ n = MaxN
    /\ \A c \in Coords(n) : timesTarget[c] = 1
    /\ current_loc = <<0, 0>>

\* C19: the observation has 2*n*n entries, the board entries in
\* 0 .. num_colors and the marker entries in {0, 1}, so all within
\* 0 .. num_colors + 1; the flattened view lists, cell by cell in row-major
\* order, the board entry and then the marker entry of the unflattened view.
C19_ObservationInSpace ==
    /\ _get_state_agent_view(FALSE)[1] \in [Coords(n) -> 0 .. num_colors]
    /\ _get_state_agent_view(FALSE)[2] \in [Coords(n) -> {0, 1}]
    /\ Len(_get_state_agent_view(TRUE)) = 2 * n * n
    /\ \A k \in 1 .. 2 * n * n :
          _get_state_agent_view(TRUE)[k] \in 0 .. num_colors + 1
    /\ \A i \in 0 .. n - 1, j \in 0 .. n - 1 :
          /\ _get_state_agent_view(TRUE)[2 * (i * n + j) + 1]
                = _get_state_agent_view(FALSE)[1][<<i, j>>]
          /\ _get_state_agent_view(TRUE)[2 * (i * n + j) + 2]
                = _get_state_agent_view(FALSE)[2][<<i, j>>]

C19_Witness ==
    /\ lastOp = "step"
    /\ done
    /\ n = MaxN
    /\ \E c \in Coords(n) : board[c] = num_colors
    /\ num_colors = MaxColors
    /\ Len(_get_state_agent_view(TRUE)) = 2 * n * n

\* C12: the targets an instance draws do not depend on another instance of
\* the process: after any interleaving of the two instances' calls, this
\* instance's target, pool and counter are what the same calls give without
\* the other instance.
C12_InstancesIndependent ==
    /\ current_loc = alone.inst.current_loc
    /\ free_coords = alone.inst.free_coords
    /\ counter = alone.inst.counter

====
